---------------------------- MODULE Spec2Model ----------------------------
(***************************************************************************)
(* Model of bin/obs_subproject_creator.py: the interactive session (main)  *)
(* that assembles an OBS project meta document from operator answers,      *)
(* oracle replies (osc api) and an optional template, and submits it.      *)
(*                                                                         *)
(* A Python str is a sequence of one-character strings, so that            *)
(* sanitising, stripping, sorting and pattern matching are computed.       *)
(* Tags, roles and program positions are plain TLA+ strings.               *)
(***************************************************************************)
EXTENDS Naturals, Sequences, FiniteSets

(***************************************************************************)
(* Bounds of the model.                                                    *)
(***************************************************************************)
\* Entries the operator makes in one session: role entries (groups and
\* users) and paths (over all repositories) together.
MaxEntries == 2

(***************************************************************************)
(* Strings.                                                                *)
(***************************************************************************)
\* The characters in use, in ascending code point order (ASCII).
AsciiOrder ==
    << " ", "-", ".", "/", "0", "1", "2", "3", "4", "5", "6", "7", "8", "9",
       ":", "A", "B", "C", "D", "E", "F", "G", "H", "I", "J", "K", "L", "M",
       "N", "O", "P", "Q", "R", "S", "T", "U", "V", "W", "X", "Y", "Z", "_",
       "a", "b", "c", "d", "e", "f", "g", "h", "i", "j", "k", "l", "m", "n",
       "o", "p", "q", "r", "s", "t", "u", "v", "w", "x", "y", "z" >>

OrdTable ==
    [ c \in { AsciiOrder[i] : i \in 1..Len(AsciiOrder) } |->
        CHOOSE i \in 1..Len(AsciiOrder) : AsciiOrder[i] = c ]

Ord(c) == OrdTable[c]

Range(s) == { s[i] : i \in 1..Len(s) }

\* Python's str < str: the first differing character decides, a proper
\* prefix is smaller.
StrLess(s, t) ==
    \E k \in 0..Len(s) :
        /\ k <= Len(t)
        /\ \A i \in 1..k : s[i] = t[i]
        /\ IF k = Len(s) THEN k < Len(t)
           ELSE k < Len(t) /\ Ord(s[k + 1]) < Ord(t[k + 1])

StrLeq(s, t) == s = t \/ StrLess(s, t)

\* str.strip(): leading and trailing blanks removed.
RECURSIVE LStrip(_)
LStrip(s) ==
    IF s # << >> /\ Head(s) = " " THEN LStrip(Tail(s)) ELSE s

RECURSIVE RStrip(_)
RStrip(s) ==
    IF s # << >> /\ s[Len(s)] = " " THEN RStrip(SubSeq(s, 1, Len(s) - 1)) ELSE s

Strip(s) == RStrip(LStrip(s))

\* str.replace(old, new) for a one-character old.
Replace(s, old, new) == [ i \in 1..Len(s) |-> IF s[i] = old THEN new ELSE s[i] ]

\* sorted(list of str): insertion sort, stable.
RECURSIVE Insert(_, _)
Insert(x, l) ==
    IF l = << >> THEN << x >>
    ELSE IF StrLess(x, Head(l)) THEN << x >> \o l
    ELSE << Head(l) >> \o Insert(x, Tail(l))

RECURSIVE Sorted(_)
Sorted(l) ==
    IF l = << >> THEN << >>
    ELSE Insert(l[Len(l)], Sorted(SubSeq(l, 1, Len(l) - 1)))

\* sorted(list(set)) : the elements of a set of str in ascending order.
RECURSIVE SortedSet(_)
SortedSet(S) ==
    IF S = {} THEN << >>
    ELSE LET m == CHOOSE x \in S : \A y \in S : StrLeq(x, y)
         IN  << m >> \o SortedSet(S \ {m})

IsAscending(l) == \A i \in 1..(Len(l) - 1) : StrLeq(l[i], l[i + 1])

(***************************************************************************)
(* Names the operator and the oracle use.                                  *)
(***************************************************************************)
x86_64  == << "x", "8", "6", "_", "6", "4" >>
ppc64le == << "p", "p", "c", "6", "4", "l", "e" >>
s390x   == << "s", "3", "9", "0", "x" >>
aarch64 == << "a", "a", "r", "c", "h", "6", "4" >>
i586    == << "i", "5", "8", "6" >>

DEFAULT_ARCHITECTURES == << x86_64, ppc64le, s390x, aarch64 >>

Blank == << >>

\* Answers to the prompts and documents of the oracle.
Home     == << "h", "o", "m", "e" >>
MyLib    == << "m", "y", "-", "l", "i", "b" >>
MyColon  == << "m", "y", ":", "l", "i", "b" >>
MySlash  == << "a", "/", "b" >>
TitleText == << "T" >>
DescriptionText == << "D" >>
TemplateName == << "t", ":", "M" >>
alice    == << "a", "l", "i", "c", "e" >>
ProjA    == << "S", ":", "U" >>
ProjB    == << "h", "/", "x" >>
standard == << "s", "t", "a", "n", "d", "a", "r", "d" >>
other    == << "o", "t", "h", "e", "r" >>

ParentAnswers == { Blank, Home }
SubprojectAnswers == { Blank, MyLib, MyColon, MySlash }
TemplateAnswers == { Blank, TemplateName }
EntityIds == { alice }
ProjectNames == { ProjA, ProjB }
PathRepositoryAnswers == { Blank, other }

(***************************************************************************)
(* XML documents (xml.etree.ElementTree).  An element has a tag, the       *)
(* attributes the program reads or writes, a text and its children.        *)
(*   person/group : name = userid/groupid, role                            *)
(*   repository   : name                                                   *)
(*   path, releasetarget : name = project, repository                      *)
(*   arch, title, description : text                                       *)
(* An absent attribute or text is the empty str.                           *)
(***************************************************************************)
Elem(tag, name, repository, role, text, kids) ==
    [ tag |-> tag, name |-> name, repository |-> repository, role |-> role,
      text |-> text, kids |-> kids ]

Leaf(tag, name, repository, role, text) ==
    Elem(tag, name, repository, role, text, << >>)

\* ET.SubElement(parent, ...): the new element is appended as last child.
SubElement(parent, child) == [ parent EXCEPT !.kids = Append(@, child) ]

\* parent.findall(tag): the direct children with the tag, in document order.
FindAll(parent, tag) == SelectSeq(parent.kids, LAMBDA e : e.tag = tag)

\* The text of a document as the oracle returns it: nothing, text that is no
\* XML, or a well-formed document with its root element.  "none" is None.
NoElement == Leaf("", Blank, Blank, "", Blank)
NoneDoc    == [ kind |-> "none",    root |-> NoElement ]
EmptyDoc   == [ kind |-> "empty",   root |-> NoElement ]
GarbageDoc == [ kind |-> "garbage", root |-> NoElement ]
XmlDoc(root) == [ kind |-> "xml", root |-> root ]

\* bool(text) of a str or None.
TruthyDoc(doc) == doc.kind \in { "garbage", "xml" }

(***************************************************************************)
(* The oracle: one run of "osc api <endpoint> --method GET".               *)
(***************************************************************************)
\* What the osc process can end with: its exit code, the HTTP error found in
\* its stderr and its stdout.
OscOutcomes(docs) ==
    { [ code |-> 0, stderr |-> "", stdout |-> d ] : d \in docs }
    \cup { [ code |-> 1, stderr |-> e, stdout |-> EmptyDoc ] :
               e \in { "HTTP Error 404", "HTTP Error 403", "HTTP Error 401", "other" } }

\* A slip: an authentication failure is reported like any other failure.
AuthenticationAsOtherFailure(outcome) ==
    IF outcome.code # 0
    THEN IF outcome.stderr = "HTTP Error 404"
         THEN [ kind |-> "HTTP_ERROR:404", body |-> EmptyDoc ]
         ELSE IF outcome.stderr = "HTTP Error 403"
         THEN [ kind |-> "HTTP_ERROR:403", body |-> EmptyDoc ]
         ELSE [ kind |-> "None", body |-> NoneDoc ]
    ELSE [ kind |-> "stdout", body |-> outcome.stdout ]

\* run_osc_api_get: the value returned, or "exit" where it calls sys.exit(1).
run_osc_api_get(outcome) ==
    IF outcome.code # 0
    THEN IF outcome.stderr = "HTTP Error 404"
         THEN [ kind |-> "HTTP_ERROR:404", body |-> EmptyDoc ]
         ELSE IF outcome.stderr = "HTTP Error 403"
         THEN [ kind |-> "HTTP_ERROR:403", body |-> EmptyDoc ]
         ELSE IF outcome.stderr = "HTTP Error 401"
         THEN [ kind |-> "exit", body |-> EmptyDoc ]
         ELSE [ kind |-> "None", body |-> NoneDoc ]
    ELSE [ kind |-> "stdout", body |-> outcome.stdout ]

NoResult == [ kind |-> "None", body |-> NoneDoc ]

\* bool(result) and result.startswith("HTTP_ERROR") of a returned value.
Truthy(result) ==
    \/ result.kind \in { "HTTP_ERROR:404", "HTTP_ERROR:403" }
    \/ result.kind = "stdout" /\ TruthyDoc(result.body)

IsHttpError(result) == result.kind \in { "HTTP_ERROR:404", "HTTP_ERROR:403" }

check_project_exists(result) ==
    IF result.kind = "HTTP_ERROR:404" THEN FALSE
    ELSE IF result.kind = "HTTP_ERROR:403" THEN TRUE
    ELSE IF Truthy(result) THEN TRUE
    ELSE FALSE

check_entity_exists(result, entity_type) ==
    IF entity_type \notin { "User", "Group" } THEN FALSE
    ELSE IF result.kind = "HTTP_ERROR:404" THEN FALSE
    ELSE IF Truthy(result) /\ ~IsHttpError(result) THEN TRUE
    ELSE FALSE

\* fetch_project_meta: the template text, or None.
fetch_project_meta(result) ==
    IF ~Truthy(result) \/ IsHttpError(result) THEN NoneDoc ELSE result.body

\* A list of str or None.
NoneList == [ none |-> TRUE, list |-> << >> ]
SomeList(l) == [ none |-> FALSE, list |-> l ]

\* A slip: an empty list counts as data.
NotNone(v) == ~v.none

\* bool(v) of a list or None.
TruthyList(v) == ~v.none /\ v.list # << >>

\* [arch.text.strip() for arch in repo_elem.findall('arch') if arch.text]
ArchTexts(repo_elem) ==
    LET withText == SelectSeq(FindAll(repo_elem, "arch"), LAMBDA a : a.text # Blank)
    IN  [ i \in 1..Len(withText) |-> Strip(withText[i].text) ]

fetch_source_architectures(result, repo_name) ==
    IF ~Truthy(result) \/ IsHttpError(result) THEN NoneList
    ELSE IF result.body.kind # "xml" THEN NoneList       \* ET.ParseError
    ELSE LET found == SelectSeq(FindAll(result.body.root, "repository"),
                                LAMBDA r : r.name = repo_name)
         IN  IF found = << >> THEN NoneList
             ELSE SomeList(Sorted(ArchTexts(found[1])))

get_template_architectures(template_meta_xml) ==
    IF ~TruthyDoc(template_meta_xml) THEN << >>
    ELSE IF template_meta_xml.kind # "xml" THEN << >>     \* ET.ParseError
    ELSE LET repos == FindAll(template_meta_xml.root, "repository")
             architectures ==
                 UNION { Range(ArchTexts(repos[i])) : i \in 1..Len(repos) }
         IN  SortedSet(architectures)

\* A slip: only the colons are replaced.
ReplaceColonsOnly(name) == Replace(name, ":", "_")

sanitize_repo_name(name) == Replace(Replace(name, ":", "_"), "/", "_")

(***************************************************************************)
(* create_project_meta_xml                                                 *)
(***************************************************************************)
\* A slip: the roles of the template follow the choice made for its
\* repositories.
KeepChildRolesWithRepos(child, include_template_repos, include_template_roles, include_template_targets, include_template_build_tags) ==
    IF child.tag \in { "person", "group" } /\ ~include_template_repos THEN FALSE
    ELSE IF child.tag = "repository" /\ ~include_template_repos THEN FALSE
    ELSE IF child.tag = "releasetarget" /\ ~include_template_targets THEN FALSE
    ELSE IF child.tag = "build" /\ ~include_template_build_tags THEN FALSE
    ELSE TRUE

\* A slip: the build element of the template is always kept.
KeepChildBuildAlways(child, include_template_repos, include_template_roles, include_template_targets, include_template_build_tags) ==
    IF child.tag \in { "person", "group" } /\ ~include_template_roles THEN FALSE
    ELSE IF child.tag = "repository" /\ ~include_template_repos THEN FALSE
    ELSE IF child.tag = "releasetarget" /\ ~include_template_targets THEN FALSE
    ELSE TRUE

\* Lines 408-419: the top-level children of the template that are kept.
KeepChild(child, include_template_repos, include_template_roles, include_template_targets, include_template_build_tags) ==
    IF child.tag \in { "person", "group" } /\ ~include_template_roles THEN FALSE
    ELSE IF child.tag = "repository" /\ ~include_template_repos THEN FALSE
    ELSE IF child.tag = "releasetarget" /\ ~include_template_targets THEN FALSE
    ELSE IF child.tag = "build" /\ ~include_template_build_tags THEN FALSE
    ELSE TRUE

\* A slip: the release targets inside repositories are left alone.
KeepNestedReleaseTargets(kids, include_template_targets) == kids

\* Lines 421-426: every releasetarget child of every repository is removed
\* unless release targets are imported.
StripReleaseTargets(kids, include_template_targets) ==
    IF include_template_targets THEN kids
    ELSE [ i \in 1..Len(kids) |->
             IF kids[i].tag = "repository"
             THEN [ kids[i] EXCEPT
                      !.kids = SelectSeq(@, LAMBDA t : t.tag # "releasetarget") ]
             ELSE kids[i] ]

\* Lines 403-430: the root the document is built on.
MergeBase(new_project_name, template_meta_xml, include_template_repos, include_template_roles, include_template_targets, include_template_build_tags) ==
    IF TruthyDoc(template_meta_xml)
    THEN LET root == template_meta_xml.root
             kept == SelectSeq(root.kids,
                         LAMBDA c : KeepChild(c, include_template_repos,
                                        include_template_roles,
                                        include_template_targets,
                                        include_template_build_tags))
         IN  [ root EXCEPT !.name = new_project_name,
                           !.kids = StripReleaseTargets(kept, include_template_targets) ]
    ELSE Elem("project", new_project_name, Blank, "", Blank, << >>)

\* update_tag (lines 432-436): the first child with the tag gets the text; a
\* new child is appended when there is none.
update_tag(parent, tag_name, text_content) ==
    IF \E i \in 1..Len(parent.kids) : parent.kids[i].tag = tag_name
    THEN LET i == CHOOSE j \in 1..Len(parent.kids) :
                      /\ parent.kids[j].tag = tag_name
                      /\ \A k \in 1..(j - 1) : parent.kids[k].tag # tag_name
         IN  [ parent EXCEPT !.kids[i].text = text_content ]
    ELSE SubElement(parent, Leaf(tag_name, Blank, Blank, "", text_content))

\* _add_role_element for every id of a list, in list order.
AddRoleElements(parent, element_tag, ids, role) ==
    [ parent EXCEPT !.kids =
        @ \o [ i \in 1..Len(ids) |-> Leaf(element_tag, ids[i], Blank, role, Blank) ] ]

\* Lines 441-448.
AddRoles(root, maintainer_users, maintainer_groups, reviewer_users, reviewer_groups) ==
    AddRoleElements(
        AddRoleElements(
            AddRoleElements(
                AddRoleElements(root, "person", maintainer_users, "maintainer"),
                "group", maintainer_groups, "maintainer"),
            "person", reviewer_users, "reviewer"),
        "group", reviewer_groups, "reviewer")

\* Lines 451-458: one repository element, its paths then its architectures.
RepositoryElement(repo_data) ==
    Elem("repository", repo_data.repo_name, Blank, "", Blank,
         [ i \in 1..Len(repo_data.paths) |->
             Leaf("path", repo_data.paths[i].project,
                  repo_data.paths[i].repository, "", Blank) ]
         \o [ i \in 1..Len(repo_data.architectures) |->
                 Leaf("arch", Blank, Blank, "", repo_data.architectures[i]) ])

\* Lines 450-458.
AddRepositories(root, repositories_config) ==
    [ root EXCEPT !.kids =
        @ \o [ i \in 1..Len(repositories_config) |->
                 RepositoryElement(repositories_config[i]) ] ]

\* ET.tostring: the elements in document order, each with its depth (the
\* root has depth 0), after the XML declaration.
Token(e, depth) ==
    [ depth |-> depth, tag |-> e.tag, name |-> e.name, repository |-> e.repository,
      role |-> e.role, text |-> e.text ]

RECURSIVE ToTokens(_, _)
RECURSIVE ToTokensAll(_, _)
ToTokens(e, depth) == << Token(e, depth) >> \o ToTokensAll(e.kids, depth + 1)
ToTokensAll(kids, depth) ==
    IF kids = << >> THEN << >>
    ELSE ToTokens(Head(kids), depth) \o ToTokensAll(Tail(kids), depth)

XmlDeclaration == Token(Leaf("?xml", Blank, Blank, "", Blank), 0)

tostring(root) == << XmlDeclaration >> \o ToTokens(root, 0)

\* The value of a call: the text returned, or the exception raised.
Returned(text) == [ raised |-> "", text |-> text ]
Raised(exc)    == [ raised |-> exc, text |-> << >> ]

create_project_meta_xml(new_project_name, title, description, maintainer_users, maintainer_groups, reviewer_users, reviewer_groups, repositories_config, template_meta_xml, include_template_repos, include_template_roles, include_template_targets, include_template_build_tags) ==
    IF TruthyDoc(template_meta_xml) /\ template_meta_xml.kind # "xml"
    THEN Raised("ParseError")          \* ET.fromstring, line 404, not caught
    ELSE LET base == MergeBase(new_project_name, template_meta_xml,
                               include_template_repos, include_template_roles,
                               include_template_targets, include_template_build_tags)
             titled == update_tag(update_tag(base, "title", title),
                                  "description", description)
             withRoles == AddRoles(titled, maintainer_users, maintainer_groups,
                                   reviewer_users, reviewer_groups)
         IN  Returned(tostring(AddRepositories(withRoles, repositories_config)))

(***************************************************************************)
(* Documents of the oracle.                                                *)
(***************************************************************************)
ArchElem(text) == Leaf("arch", Blank, Blank, "", text)
TargetElem == Leaf("releasetarget", ProjA, standard, "", Blank)

\* A template with every category: name, title, description, role, build,
\* a repository with a release target and an architecture, and a second
\* repository that shares its architecture and has another one.
TemplateFull ==
    XmlDoc(Elem("project", TemplateName, Blank, "", Blank,
        << Leaf("title", Blank, Blank, "", << "M" >>),
           Leaf("description", Blank, Blank, "", Blank),
           Leaf("person", alice, Blank, "maintainer", Blank),
           Leaf("build", Blank, Blank, "", Blank),
           Elem("repository", standard, Blank, "", Blank,
                << TargetElem, ArchElem(x86_64) >>),
           Elem("repository", other, Blank, "", Blank,
                << ArchElem(x86_64), ArchElem(<< " " >> \o aarch64) >>) >>))

\* A template whose repository has no architectures.
TemplateBare ==
    XmlDoc(Elem("project", TemplateName, Blank, "", Blank,
        << Leaf("title", Blank, Blank, "", << "M" >>),
           Leaf("description", Blank, Blank, "", Blank),
           Leaf("group", alice, Blank, "reviewer", Blank),
           Elem("repository", standard, Blank, "", Blank, << TargetElem >>) >>))

TemplateDocs == { TemplateFull, TemplateBare, GarbageDoc, EmptyDoc }

SourceMeta(archTexts) ==
    XmlDoc(Elem("project", ProjA, Blank, "", Blank,
        << Leaf("title", Blank, Blank, "", Blank),
           Elem("repository", standard, Blank, "", Blank,
                [ i \in 1..Len(archTexts) |-> ArchElem(archTexts[i]) ]) >>))

\* Metadata of a source project: two architectures (one padded), the default
\* ones in the order of DEFAULT_ARCHITECTURES, none at all.
SourceDocs ==
    { SourceMeta(<< x86_64, aarch64 \o << " " >> >>),
      SourceMeta(DEFAULT_ARCHITECTURES),
      SourceMeta(<< >>),
      GarbageDoc, EmptyDoc }

ExistenceDocs == { SourceMeta(<< >>), EmptyDoc }

\* What a query can end with, by what is asked for.
ExistenceOutcomes == OscOutcomes(ExistenceDocs)
TemplateOutcomes == OscOutcomes(TemplateDocs)
SourceOutcomes == OscOutcomes(SourceDocs)

(***************************************************************************)
(* The session: main().                                                    *)
(***************************************************************************)
VARIABLES
    pc,
    parent_project, parent_project_exists, subproject_name,
    template_meta_xml, template_arches, custom_repo_arches,
    include_template_roles, include_template_repos,
    include_template_targets, include_template_build_tags,
    entity_type, entity_id, entity_roles, group_assignments, user_assignments,
    maintainer_users, maintainer_groups, reviewer_users, reviewer_groups,
    repositories_config,
    repo_input_name, repo_name, paths, current_architectures, path_count,
    path_project_default, path_project, project_exists, source_arches,
    final_repo_name, answer,
    project_xml_payload, submitted,
    authentication_failed

\* parent_project_exists is the local project_exists of main().
identity == << parent_project, parent_project_exists, subproject_name >>
template == << template_meta_xml, template_arches, custom_repo_arches,
               include_template_roles, include_template_repos,
               include_template_targets, include_template_build_tags >>
roleLoop == << entity_type, entity_id, entity_roles, group_assignments, user_assignments >>
roleLists == << maintainer_users, maintainer_groups, reviewer_users, reviewer_groups >>
repoLoop == << repo_input_name, repo_name, paths, current_architectures, path_count,
               path_project_default, path_project, project_exists, source_arches,
               final_repo_name, answer >>
output == << project_xml_payload, submitted >>

vars == << pc, identity, template, roleLoop, roleLists, repositories_config,
           repoLoop, output, authentication_failed >>

\* The locals of get_repository_details outside a call.
NoRepoLocals ==
    /\ repo_input_name = Blank
    /\ repo_name = Blank
    /\ paths = << >>
    /\ current_architectures = << >>
    /\ path_count = 0
    /\ path_project_default = Blank
    /\ path_project = Blank
    /\ project_exists = FALSE
    /\ source_arches = NoneList
    /\ final_repo_name = Blank
    /\ answer = FALSE

Init ==
    /\ pc = "start"
    /\ parent_project = Blank
    /\ parent_project_exists = FALSE
    /\ subproject_name = Blank
    /\ template_meta_xml = NoneDoc
    /\ template_arches = << >>
    /\ custom_repo_arches = << >>
    /\ include_template_roles = FALSE
    /\ include_template_repos = FALSE
    /\ include_template_targets = FALSE
    /\ include_template_build_tags = FALSE
    /\ entity_type = ""
    /\ entity_id = Blank
    /\ entity_roles = << >>
    /\ group_assignments = << >>
    /\ user_assignments = << >>
    /\ maintainer_users = << >>
    /\ maintainer_groups = << >>
    /\ reviewer_users = << >>
    /\ reviewer_groups = << >>
    /\ repositories_config = << >>
    /\ NoRepoLocals
    /\ project_xml_payload = Returned(<< >>)
    /\ submitted = 0
    /\ authentication_failed = FALSE

RECURSIVE PathsIn(_)
PathsIn(repos) ==
    IF repos = << >> THEN 0 ELSE Len(Head(repos).paths) + PathsIn(Tail(repos))

\* The entries made so far in the session.
Entries ==
    Len(group_assignments) + Len(user_assignments) + Len(entity_roles)
    + PathsIn(repositories_config) + Len(paths)

(***************************************************************************)
(* main(), lines 494-590: identity, names, template.                       *)
(***************************************************************************)
\* sys.exit(1) of run_osc_api_get on HTTP 401 (line 105).
Exit == pc' = "exited"

\* One run of osc api (lines 94-102): whether the process failed with
\* "HTTP Error 401" in its stderr is kept as the reply of the last query.
OscApiRun(outcome) ==
    authentication_failed' = (outcome.code # 0 /\ outcome.stderr = "HTTP Error 401")

\* Lines 502-510: the API URL and the authenticated user (used in a prompt
\* only).
Start ==
    /\ pc = "start"
    /\ \E outcome \in ExistenceOutcomes :
          /\ OscApiRun(outcome)
          /\ IF run_osc_api_get(outcome).kind = "exit" THEN Exit ELSE pc' = "parent"
    /\ UNCHANGED << identity, template, roleLoop, roleLists, repositories_config,
                    repoLoop, output >>

\* The position after the parent prompt if the answer of the existence check
\* were not looked at.
ParentAcceptedUnchecked(exists) == "subproject"

\* main(): the parent loop is left only when the project exists; otherwise
\* the error is printed and the parent is asked again, with no override.
AfterParentCheck(exists) == IF exists THEN "subproject" ELSE "parent"

\* Lines 512-526: one round of the parent project loop.  A rejected answer is
\* overwritten by the next round before anything reads it, so parent_project
\* keeps it only once it is accepted.
EnterParentProject ==
    /\ pc = "parent"
    /\ \E input \in ParentAnswers :
          IF input = Blank
          THEN UNCHANGED << pc, parent_project, parent_project_exists,
                            authentication_failed >>
          ELSE \E outcome \in ExistenceOutcomes :
               LET result == run_osc_api_get(outcome)
               IN  /\ OscApiRun(outcome)
                   /\ IF result.kind = "exit"
                      THEN Exit /\ UNCHANGED << parent_project, parent_project_exists >>
                      ELSE /\ parent_project_exists' = check_project_exists(result)
                           /\ pc' = AfterParentCheck(parent_project_exists')
                           /\ parent_project' = IF parent_project_exists'
                                                THEN input
                                                ELSE parent_project
    /\ UNCHANGED << subproject_name, template, roleLoop, roleLists,
                    repositories_config, repoLoop, output >>

\* re.match(r'^[a-zA-Z0-9._-]+$', name), line 538.
NameChars ==
    { AsciiOrder[i] : i \in 1..Len(AsciiOrder) } \ { " ", "/", ":" }

\* A slip: every name that is not empty is taken.
AnyNameGiven(name) == name # Blank

ValidSubprojectName(name) ==
    name # Blank /\ \A i \in 1..Len(name) : name[i] \in NameChars

\* Lines 529-544: one round of the subproject name loop.
EnterSubprojectName ==
    /\ pc = "subproject"
    /\ \E input \in SubprojectAnswers :
          IF ValidSubprojectName(Strip(input))
          THEN pc' = "template" /\ subproject_name' = Strip(input)
          ELSE UNCHANGED << pc, subproject_name >>
    /\ UNCHANGED << parent_project, parent_project_exists, template, roleLoop, roleLists,
                    repositories_config, repoLoop, output, authentication_failed >>

\* Line 546.
full_project_name == parent_project \o << ":" >> \o subproject_name

\* A slip: the architectures of the template are the seed, even when it
\* has none.
SeedAsGiven(arches) == arches

\* Line 590.
SeedFrom(arches) == IF arches # << >> THEN arches ELSE DEFAULT_ARCHITECTURES

\* get_role_assignments is entered for the groups (line 593).
EnterRoles ==
    /\ pc' = "entity_id"
    /\ entity_type' = "Group"
    /\ entity_roles' = << >>
    /\ UNCHANGED << entity_id, group_assignments, user_assignments >>

\* Lines 546-572 and, without a template, 588-593: title, description and the
\* template project, whose metadata is fetched.
EnterTemplate ==
    /\ pc = "template"
    /\ \E input \in TemplateAnswers :
          IF input = Blank
          THEN /\ template_arches' = DEFAULT_ARCHITECTURES
               /\ custom_repo_arches' = SeedFrom(DEFAULT_ARCHITECTURES)
               /\ EnterRoles
               /\ UNCHANGED << template_meta_xml, authentication_failed >>
          ELSE \E outcome \in TemplateOutcomes :
               LET result == run_osc_api_get(outcome)
                   meta == fetch_project_meta(result)
               IN  /\ OscApiRun(outcome)
                   /\ IF result.kind = "exit"
                      THEN /\ Exit
                           /\ UNCHANGED << template_meta_xml, template_arches,
                                           custom_repo_arches, roleLoop >>
                      ELSE /\ template_meta_xml' = meta
                           /\ template_arches' =
                                 IF TruthyDoc(meta) THEN get_template_architectures(meta)
                                 ELSE DEFAULT_ARCHITECTURES
                           /\ pc' = "import_roles"
                           /\ UNCHANGED << custom_repo_arches, roleLoop >>
    /\ UNCHANGED << identity, include_template_roles, include_template_repos,
                    include_template_targets, include_template_build_tags,
                    roleLists, repositories_config, repoLoop, output >>

\* Lines 575-576.
AnswerImportRoles ==
    /\ pc = "import_roles"
    /\ \E yes \in BOOLEAN : include_template_roles' = yes
    /\ pc' = "import_repos"
    /\ UNCHANGED << identity, template_meta_xml, template_arches, custom_repo_arches,
                    include_template_repos, include_template_targets,
                    include_template_build_tags, roleLoop, roleLists,
                    repositories_config, repoLoop, output, authentication_failed >>

\* Lines 578-579 and, when declined, 584-593.
AnswerImportRepos ==
    /\ pc = "import_repos"
    /\ \E yes \in BOOLEAN :
          IF yes
          THEN /\ include_template_repos' = TRUE
               /\ pc' = "import_targets"
               /\ UNCHANGED << template_arches, custom_repo_arches, roleLoop >>
          ELSE /\ template_arches' = DEFAULT_ARCHITECTURES
               /\ custom_repo_arches' = SeedFrom(DEFAULT_ARCHITECTURES)
               /\ EnterRoles
               /\ UNCHANGED include_template_repos
    /\ UNCHANGED << identity, template_meta_xml, include_template_roles,
                    include_template_targets, include_template_build_tags,
                    roleLists, repositories_config, repoLoop, output, authentication_failed >>

\* Lines 580-581.
AnswerImportTargets ==
    /\ pc = "import_targets"
    /\ \E yes \in BOOLEAN : include_template_targets' = yes
    /\ pc' = "import_build"
    /\ UNCHANGED << identity, template_meta_xml, template_arches, custom_repo_arches,
                    include_template_roles, include_template_repos,
                    include_template_build_tags, roleLoop, roleLists,
                    repositories_config, repoLoop, output, authentication_failed >>

\* Lines 582-583 and 590-593.
AnswerImportBuildTags ==
    /\ pc = "import_build"
    /\ \E yes \in BOOLEAN : include_template_build_tags' = yes
    /\ custom_repo_arches' = SeedFrom(template_arches)
    /\ EnterRoles
    /\ UNCHANGED << identity, template_meta_xml, template_arches,
                    include_template_roles, include_template_repos,
                    include_template_targets, roleLists,
                    repositories_config, repoLoop, output, authentication_failed >>

(***************************************************************************)
(* get_role_assignments, lines 234-271, and main(), lines 593-608.         *)
(***************************************************************************)
\* The ids of the entries that carry a role, in list order (lines 599-608).
IdsWith(assignments, role) ==
    LET granted == SelectSeq(assignments, LAMBDA item : item[role])
    IN  [ i \in 1..Len(granted) |-> granted[i].id ]

\* Lines 242-253: the id prompt and the existence check.  A blank id ends
\* the loop: the groups are followed by the users, the users by the four
\* role lists and the repository loop.
EnterEntityId ==
    /\ pc = "entity_id"
    /\ \E input \in { Blank } \cup EntityIds :
          IF input = Blank
          THEN IF entity_type = "Group"
               THEN /\ group_assignments' = entity_roles
                    /\ entity_type' = "User"
                    /\ entity_roles' = << >>
                    /\ UNCHANGED << pc, entity_id, user_assignments, roleLists,
                                    authentication_failed >>
               ELSE /\ user_assignments' = entity_roles
                    /\ maintainer_groups' = IdsWith(group_assignments, "maintainer")
                    /\ reviewer_groups' = IdsWith(group_assignments, "reviewer")
                    /\ maintainer_users' = IdsWith(entity_roles, "maintainer")
                    /\ reviewer_users' = IdsWith(entity_roles, "reviewer")
                    /\ entity_roles' = << >>
                    /\ entity_type' = ""
                    /\ pc' = "repo_input"
                    /\ UNCHANGED << entity_id, group_assignments, authentication_failed >>
          ELSE /\ Entries < MaxEntries
               /\ \E outcome \in ExistenceOutcomes :
                  /\ OscApiRun(outcome)
                  /\ LET result == run_osc_api_get(outcome)
                     IN  IF result.kind = "exit"
                         THEN Exit /\ UNCHANGED entity_id
                         ELSE /\ entity_id' = input
                              /\ pc' = IF check_entity_exists(result, entity_type)
                                       THEN "role_flags" ELSE "entity_override"
               /\ UNCHANGED << entity_type, entity_roles, group_assignments,
                               user_assignments, roleLists >>
    /\ UNCHANGED << identity, template, repositories_config, repoLoop, output >>

\* Lines 252-253.
AnswerEntityOverride ==
    /\ pc = "entity_override"
    /\ \E yes \in BOOLEAN :
          IF yes
          THEN pc' = "role_flags" /\ UNCHANGED entity_id
          ELSE pc' = "entity_id" /\ entity_id' = Blank
    /\ UNCHANGED << identity, template, entity_type, entity_roles, group_assignments,
                    user_assignments, roleLists, repositories_config, repoLoop, output,
                    authentication_failed >>

\* Lines 257-269.
AnswerRoles ==
    /\ pc = "role_flags"
    /\ \E is_maintainer \in BOOLEAN, is_reviewer \in BOOLEAN :
          entity_roles' =
              IF is_maintainer \/ is_reviewer
              THEN Append(entity_roles, [ id |-> entity_id,
                                          maintainer |-> is_maintainer,
                                          reviewer |-> is_reviewer ])
              ELSE entity_roles
    /\ entity_id' = Blank
    /\ pc' = "entity_id"
    /\ UNCHANGED << identity, template, entity_type, group_assignments,
                    user_assignments, roleLists, repositories_config, repoLoop, output,
                    authentication_failed >>

(***************************************************************************)
(* get_repository_details, lines 274-379, and main(), lines 610-620.       *)
(***************************************************************************)

\* The dictionary get_repository_details returns.
RepoData(name, pathList, architectures) ==
    [ repo_name |-> name, paths |-> pathList, architectures |-> architectures ]

\* The return of get_repository_details and line 620 of main().
ReturnRepository(repo_data) ==
    /\ repositories_config' = Append(repositories_config, repo_data)
    /\ repo_input_name' = Blank
    /\ repo_name' = Blank
    /\ paths' = << >>
    /\ current_architectures' = << >>
    /\ path_count' = 0
    /\ path_project_default' = Blank
    /\ path_project' = Blank
    /\ project_exists' = FALSE
    /\ source_arches' = NoneList
    /\ final_repo_name' = Blank
    /\ answer' = FALSE
    /\ pc' = "repo_input"

\* Lines 614-620 and 279-295: the repository prompt; a name enters
\* get_repository_details up to its first path prompt, a blank ends the loop.
\* What a repository would start from if the slot were carried over from the
\* repository built before it instead of being taken from the session seed.
ArchitecturesOfPreviousRepository ==
    IF repositories_config = << >>
    THEN custom_repo_arches
    ELSE repositories_config[Len(repositories_config)].architectures

\* get_repository_details: the architectures every repository starts from,
\* the session seed handed over by main() (current_architectures =
\* custom_repo_arches).  The code only ever rebinds current_architectures
\* and never updates a list in place, so the shared list object behaves as
\* a value.
StartingArchitectures == custom_repo_arches

EnterRepository ==
    /\ pc = "repo_input"
    /\ \E input \in { Blank } \cup ProjectNames :
          IF input = Blank
          THEN pc' = "build_xml" /\ UNCHANGED repoLoop
          ELSE /\ Entries < MaxEntries
               /\ repo_input_name' = input
               /\ repo_name' = sanitize_repo_name(input)
               /\ paths' = << >>
               /\ current_architectures' = StartingArchitectures
               /\ path_count' = 1
               /\ path_project_default' = input
               /\ pc' = "path_project"
               /\ UNCHANGED << path_project, project_exists, source_arches,
                               final_repo_name, answer >>
    /\ UNCHANGED << identity, template, roleLoop, roleLists, repositories_config,
                    output, authentication_failed >>

\* A slip: a blank answer stays blank.
WithoutDefault(text, default) == Strip(text)

\* input(...).strip() or default (lines 299-300).
OrDefault(text, default) == IF Strip(text) # Blank THEN Strip(text) ELSE default

\* A slip: the project is taken whatever the existence check said.
AcceptedUnchecked(exists) == "path_repository"

\* Lines 316-322: a project that exists is accepted, for another the
\* operator is asked.
AfterExistenceCheck(exists) == IF exists THEN "path_repository" ELSE "path_override"

\* Lines 297-321: one round of the path project loop up to the existence
\* check.
EnterPathProject ==
    /\ pc = "path_project"
    /\ \E input \in { Blank } \cup ProjectNames, outcome \in ExistenceOutcomes :
          LET project == OrDefault(input, path_project_default)
              result == run_osc_api_get(outcome)
          IN  IF path_count > 1 /\ project = Blank
              THEN /\ ReturnRepository(RepoData(
                          IF paths # << >> THEN sanitize_repo_name(paths[1].project)
                          ELSE repo_name,
                          paths, current_architectures))
                   /\ UNCHANGED authentication_failed
              ELSE /\ OscApiRun(outcome)
                   /\ IF result.kind = "exit"
                      THEN Exit /\ UNCHANGED << repositories_config, repoLoop >>
                      ELSE /\ path_project' = project
                           /\ project_exists' = check_project_exists(result)
                           /\ pc' = AfterExistenceCheck(project_exists')
                           /\ UNCHANGED << repositories_config, repo_input_name,
                                           repo_name, paths, current_architectures,
                                           path_count, path_project_default,
                                           source_arches, final_repo_name, answer >>
    /\ UNCHANGED << identity, template, roleLoop, roleLists, output >>

\* Lines 322-327: the override question for a project that was not found.
AnswerPathOverride ==
    /\ pc = "path_override"
    /\ \E yes \in BOOLEAN :
          /\ answer' = yes
          /\ IF yes
             THEN pc' = "path_repository" /\ UNCHANGED path_project_default
             ELSE pc' = "path_project" /\ path_project_default' = path_project
    /\ UNCHANGED << identity, template, roleLoop, roleLists, repositories_config,
                    repo_input_name, repo_name, paths, current_architectures,
                    path_count, path_project, project_exists, source_arches,
                    final_repo_name, output, authentication_failed >>

\* A slip: a first path takes whatever the discovery returned, data or not.
ReconcileTakingNoData(count, discovered, current) ==
    IF TruthyList(discovered) /\ Range(discovered.list) # Range(current)
    THEN [ ask |-> TRUE, architectures |-> current ]
    ELSE [ ask |-> FALSE,
           architectures |-> IF count = 1 THEN discovered.list ELSE current ]

\* Lines 343-362 without the prompt: what the discovery does to the current
\* architectures.  "ask" is the prompt of line 349.
Reconcile(count, discovered, current) ==
    IF TruthyList(discovered) /\ Range(discovered.list) # Range(current)
    THEN [ ask |-> TRUE, architectures |-> current ]
    ELSE IF TruthyList(discovered)
    THEN [ ask |-> FALSE,
           architectures |-> IF count = 1 THEN discovered.list ELSE current ]
    ELSE [ ask |-> FALSE, architectures |-> current ]

\* A slip: the replacement adds the discovered architectures to the current.
ReplacedByUnion(yes, discovered, current) ==
    IF yes THEN SortedSet(Range(discovered.list) \cup Range(current)) ELSE current

\* Lines 349-353: the answer to "REPLACE the current architecture set".
Replaced(yes, discovered, current) == IF yes THEN discovered.list ELSE current

\* A slip: the name follows the path added last.
FinalRepoNameOfLastPath(count, project, pathList) == sanitize_repo_name(project)

\* Lines 364-368.
FinalRepoName(count, project, pathList) ==
    IF count = 1 THEN sanitize_repo_name(project)
    ELSE sanitize_repo_name(pathList[1].project)

\* Lines 330-370: the path repository prompt; the path is appended, the
\* architectures of its project are fetched and compared with the current
\* ones.  project_exists and the answer to the override question are not
\* read again once the path is appended: they are forgotten here.
EnterPathRepository ==
    /\ pc = "path_repository"
    /\ \E input \in PathRepositoryAnswers, outcome \in SourceOutcomes :
          LET path_repository_default ==
                  IF paths # << >> THEN paths[Len(paths)].repository ELSE standard
              path_repository ==
                  IF Strip(input) # Blank THEN Strip(input) ELSE path_repository_default
              result == run_osc_api_get(outcome)
              discovered == fetch_source_architectures(result, path_repository)
              step == Reconcile(path_count, discovered, current_architectures)
          IN  /\ paths' = Append(paths, [ project |-> path_project,
                                          repository |-> path_repository ])
              /\ OscApiRun(outcome)
              /\ project_exists' = FALSE
              /\ answer' = FALSE
              /\ IF result.kind = "exit"
                 THEN /\ Exit
                      /\ UNCHANGED << source_arches, current_architectures,
                                      final_repo_name, path_project_default >>
                 ELSE /\ source_arches' = discovered
                      /\ current_architectures' = step.architectures
                      /\ IF step.ask
                         THEN /\ pc' = "replace"
                              /\ UNCHANGED << final_repo_name, path_project_default >>
                         ELSE /\ pc' = "another_path"
                              /\ final_repo_name' =
                                    FinalRepoName(path_count, path_project, paths')
                              /\ path_project_default' = path_project
    /\ UNCHANGED << identity, template, roleLoop, roleLists, repositories_config,
                    repo_input_name, repo_name, path_count, path_project, output >>

\* Lines 349-370: the operator's decision.
AnswerReplace ==
    /\ pc = "replace"
    /\ \E yes \in BOOLEAN :
          /\ answer' = yes
          /\ current_architectures' = Replaced(yes, source_arches, current_architectures)
    /\ final_repo_name' = FinalRepoName(path_count, path_project, paths)
    /\ path_project_default' = path_project
    /\ pc' = "another_path"
    /\ UNCHANGED << identity, template, roleLoop, roleLists, repositories_config,
                    repo_input_name, repo_name, paths, path_count, path_project,
                    project_exists, source_arches, output, authentication_failed >>

\* Lines 372-379 and 290-295: another path, or the repository is returned.
AnswerAnotherPath ==
    /\ pc = "another_path"
    /\ \E yes \in BOOLEAN :
          IF yes
          THEN /\ Entries < MaxEntries
               /\ path_count' = path_count + 1
               /\ path_project_default' = paths[Len(paths)].project
               /\ project_exists' = FALSE
               /\ source_arches' = NoneList
               /\ answer' = FALSE
               /\ pc' = "path_project"
               /\ UNCHANGED << repositories_config, repo_input_name, repo_name, paths,
                               current_architectures, path_project,
                               final_repo_name >>
          ELSE ReturnRepository(RepoData(final_repo_name, paths, current_architectures))
    /\ UNCHANGED << identity, template, roleLoop, roleLists, output,
                    authentication_failed >>

(***************************************************************************)
(* main(), lines 622-641: the document is built and submitted.             *)
(***************************************************************************)
BuildXml ==
    /\ pc = "build_xml"
    /\ project_xml_payload' =
          create_project_meta_xml(full_project_name, TitleText, DescriptionText,
              maintainer_users, maintainer_groups, reviewer_users, reviewer_groups,
              repositories_config, template_meta_xml,
              include_template_repos, include_template_roles,
              include_template_targets, include_template_build_tags)
    /\ pc' = IF project_xml_payload'.raised # "" THEN "crashed" ELSE "submit"
    /\ UNCHANGED << identity, template, roleLoop, roleLists, repositories_config,
                    repoLoop, submitted, authentication_failed >>

\* create_subproject_with_meta_cmd, lines 464-489: osc meta prj ... -F -.
Submit ==
    /\ pc = "submit"
    /\ submitted' = submitted + 1
    /\ \E code \in { 0, 1 } : pc' = IF code = 0 THEN "done" ELSE "failed"
    /\ UNCHANGED << identity, template, roleLoop, roleLists, repositories_config,
                    repoLoop, project_xml_payload, authentication_failed >>

Next ==
    \/ Start
    \/ EnterParentProject
    \/ EnterSubprojectName
    \/ EnterTemplate
    \/ AnswerImportRoles
    \/ AnswerImportRepos
    \/ AnswerImportTargets
    \/ AnswerImportBuildTags
    \/ EnterEntityId
    \/ AnswerEntityOverride
    \/ AnswerRoles
    \/ EnterRepository
    \/ EnterPathProject
    \/ AnswerPathOverride
    \/ EnterPathRepository
    \/ AnswerReplace
    \/ AnswerAnotherPath
    \/ BuildXml
    \/ Submit

Spec == Init /\ [][Next]_vars

(***************************************************************************)
(* create_project_meta_xml on its own: the arguments are drawn from        *)
(* bounded sets and the function is applied once.                          *)
(***************************************************************************)
\* Top-level children a template is built from.
MaxTemplateKids == 2

TemplateKids ==
    { Leaf("title", Blank, Blank, "", << "M" >>),
      Leaf("person", alice, Blank, "maintainer", Blank),
      Leaf("group", alice, Blank, "reviewer", Blank),
      Leaf("build", Blank, Blank, "", Blank),
      TargetElem,
      Elem("repository", standard, Blank, "", Blank, << ArchElem(i586) >>),
      Elem("repository", other, Blank, "", Blank,
           << TargetElem, ArchElem(x86_64), TargetElem >>) }

RECURSIVE SeqsUpTo(_, _)
SeqsUpTo(S, n) ==
    IF n = 0 THEN { << >> }
    ELSE LET shorter == SeqsUpTo(S, n - 1)
         IN  shorter \cup { Append(q, x) : q \in shorter, x \in S }

TemplateArguments ==
    { NoneDoc, GarbageDoc }
    \cup { XmlDoc(Elem("project", TemplateName, Blank, "", Blank, kids)) :
              kids \in SeqsUpTo(TemplateKids, MaxTemplateKids) }

RepositoryArguments ==
    { << >>,
      << RepoData(sanitize_repo_name(ProjA),
                  << [ project |-> ProjA, repository |-> standard ] >>,
                  << aarch64, x86_64 >>) >> }

InitXml ==
    /\ pc = "build_xml"
    /\ parent_project = Home
    /\ parent_project_exists = TRUE
    /\ subproject_name = MyLib
    /\ template_meta_xml \in TemplateArguments
    /\ template_arches = << >>
    /\ custom_repo_arches = << >>
    /\ include_template_roles \in BOOLEAN
    /\ include_template_repos \in BOOLEAN
    /\ include_template_targets \in BOOLEAN
    /\ include_template_build_tags \in BOOLEAN
    /\ entity_type = ""
    /\ entity_id = Blank
    /\ entity_roles = << >>
    /\ group_assignments = << >>
    /\ user_assignments = << >>
    /\ maintainer_users \in { << >>, << alice >> }
    /\ maintainer_groups = << >>
    /\ reviewer_users = << >>
    /\ reviewer_groups = << >>
    /\ repositories_config \in RepositoryArguments
    /\ NoRepoLocals
    /\ project_xml_payload = Returned(<< >>)
    /\ submitted = 0
    /\ authentication_failed = FALSE

NextXml == BuildXml

SpecXml == InitXml /\ [][NextXml]_vars

(***************************************************************************)
(* sanitize_repo_name on its own: the name is drawn from the strings over  *)
(* a small alphabet, sanitised, and the result sanitised again.            *)
(***************************************************************************)
\* Length of the names that are sanitised.
MaxNameLen == 3

\* Both separators, the character they become and another one.
SanitizeAlphabet == { ":", "/", "_", "a" }

InitSanitize ==
    /\ pc = "sanitize"
    /\ parent_project = Blank
    /\ parent_project_exists = FALSE
    /\ subproject_name = Blank
    /\ template_meta_xml = NoneDoc
    /\ template_arches = << >>
    /\ custom_repo_arches = << >>
    /\ include_template_roles = FALSE
    /\ include_template_repos = FALSE
    /\ include_template_targets = FALSE
    /\ include_template_build_tags = FALSE
    /\ entity_type = ""
    /\ entity_id = Blank
    /\ entity_roles = << >>
    /\ group_assignments = << >>
    /\ user_assignments = << >>
    /\ maintainer_users = << >>
    /\ maintainer_groups = << >>
    /\ reviewer_users = << >>
    /\ reviewer_groups = << >>
    /\ repositories_config = << >>
    /\ repo_input_name \in SeqsUpTo(SanitizeAlphabet, MaxNameLen)
    /\ repo_name = Blank
    /\ paths = << >>
    /\ current_architectures = << >>
    /\ path_count = 0
    /\ path_project_default = Blank
    /\ path_project = Blank
    /\ project_exists = FALSE
    /\ source_arches = NoneList
    /\ final_repo_name = Blank
    /\ answer = FALSE
    /\ project_xml_payload = Returned(<< >>)
    /\ submitted = 0
    /\ authentication_failed = FALSE

\* repo_name = sanitize_repo_name(repo_input_name), line 279.
Sanitize ==
    /\ pc = "sanitize"
    /\ repo_name' = sanitize_repo_name(repo_input_name)
    /\ pc' = "sanitized"
    /\ UNCHANGED << identity, template, roleLoop, roleLists, repositories_config,
                    repo_input_name, paths, current_architectures, path_count,
                    path_project_default, path_project, project_exists,
                    source_arches, final_repo_name, answer, output,
                    authentication_failed >>

\* The function applied to its own result.
SanitizeAgain ==
    /\ pc = "sanitized"
    /\ final_repo_name' = sanitize_repo_name(repo_name)
    /\ pc' = "sanitized_twice"
    /\ UNCHANGED << identity, template, roleLoop, roleLists, repositories_config,
                    repo_input_name, repo_name, paths, current_architectures,
                    path_count, path_project_default, path_project, project_exists,
                    source_arches, answer, output, authentication_failed >>

NextSanitize == Sanitize \/ SanitizeAgain

SpecSanitize == InitSanitize /\ [][NextSanitize]_vars

(***************************************************************************)
(* Reading a rendered document.                                            *)
(***************************************************************************)
\* create_project_meta_xml has returned a document.
Rendered == pc \in { "submit", "done", "failed" }

Doc == project_xml_payload.text

RECURSIVE Ascending(_)
Ascending(S) ==
    IF S = {} THEN << >>
    ELSE LET m == CHOOSE x \in S : \A y \in S : x <= y
         IN  << m >> \o Ascending(S \ {m})

\* The positions of the top-level elements (children of the root), in
\* document order.
TopLevel == Ascending({ i \in 1..Len(Doc) : Doc[i].depth = 1 })

\* The positions of the children of the element at position i.
ChildrenOf(i) ==
    Ascending({ j \in (i + 1)..Len(Doc) :
                  /\ Doc[j].depth = Doc[i].depth + 1
                  /\ \A k \in (i + 1)..j : Doc[k].depth > Doc[i].depth })

\* The positions of the repository elements built in the session: the last
\* top-level elements of the document.
SessionRepositories ==
    LET n == Len(repositories_config)
    IN  SubSeq(TopLevel, Len(TopLevel) - n + 1, Len(TopLevel))

ArchTextsAt(i) ==
    LET archs == SelectSeq(ChildrenOf(i), LAMBDA j : Doc[j].tag = "arch")
    IN  [ k \in 1..Len(archs) |-> Doc[archs[k]].text ]

(***************************************************************************)
(* Claims.                                                                 *)
(***************************************************************************)
\* C1: after the first path of a repository has been added and its
\* architectures were discovered (a non-empty list), the current
\* architectures are the discovered ones, whatever the operator answered.
C1_FirstPathTakesDiscovered ==
    (pc = "another_path" /\ path_count = 1 /\ TruthyList(source_arches))
        => current_architectures = source_arches.list

\* C2: in a rendered document the arch elements of every repository built
\* in the session are in ascending lexical order.
C2_ArchElementsAscending ==
    Rendered =>
        \A k \in 1..Len(SessionRepositories) :
            IsAscending(ArchTextsAt(SessionRepositories[k]))

\* The role entries of the session that grant a role to an id, and the
\* elements of the document that carry it.
Grants(assignments, id, role) ==
    Len(SelectSeq(assignments, LAMBDA item : item.id = id /\ item[role]))

RoleElements(tag, id, role) ==
    { i \in 1..Len(Doc) :
        Doc[i].depth = 1 /\ Doc[i].tag = tag /\ Doc[i].name = id /\ Doc[i].role = role }

\* C3: an id of one kind that was granted a role more than once in the
\* session has exactly one person/group element with that role in the
\* rendered document.
C3_OneElementPerGrant ==
    Rendered =>
        \A id \in EntityIds, role \in { "maintainer", "reviewer" } :
            /\ Grants(user_assignments, id, role) > 1
                  => Cardinality(RoleElements("person", id, role)) = 1
            /\ Grants(group_assignments, id, role) > 1
                  => Cardinality(RoleElements("group", id, role)) = 1

\* C4: a template text that is no XML never ends the session: building the
\* document does not fail on it.
C4_UnparsableTemplateNeverAborts ==
    template_meta_xml.kind = "garbage" => pc # "crashed"

\* C5: for a path after the first whose architectures were discovered: a
\* set equal to the current one asks nothing and changes nothing; a different
\* set asks the operator, and the current list afterwards is the discovered
\* one on "replace" and the previous one on "keep".  No other step of the
\* path loop changes the current architectures.
C5_LaterPathStep ==
    /\ (pc = "path_repository" /\ path_count > 1 /\ pc' # "exited"
            /\ TruthyList(source_arches'))
          => /\ current_architectures' = current_architectures
             /\ pc' = IF Range(source_arches'.list) # Range(current_architectures)
                      THEN "replace" ELSE "another_path"
    /\ (pc = "replace" /\ path_count > 1)
          => /\ pc' = "another_path"
             /\ current_architectures' =
                   IF answer' THEN source_arches.list ELSE current_architectures
    /\ (pc \in { "path_project", "path_override" } /\ pc' # "repo_input")
          => current_architectures' = current_architectures
    /\ (pc = "another_path" /\ pc' = "path_project")
          => current_architectures' = current_architectures

C5_StrictReplacement == [][C5_LaterPathStep]_vars

\* A second path with different architectures was kept out by the operator.
C5_Witness ==
    /\ pc = "another_path"
    /\ path_count = 2
    /\ TruthyList(source_arches)
    /\ Range(source_arches.list) # Range(current_architectures)
    /\ ~answer

\* What the oracle can answer a metadata request with when it has no
\* architectures for the repository: not found, forbidden, another failure,
\* no output, text that is no XML, metadata without the repository, a
\* repository without arch entries.
NoData(outcome, name) ==
    \/ outcome.code # 0 /\ outcome.stderr # "HTTP Error 401"
    \/ outcome.code = 0 /\ outcome.stdout.kind \in { "empty", "garbage" }
    \/ /\ outcome.code = 0
       /\ outcome.stdout.kind = "xml"
       /\ \A i \in 1..Len(outcome.stdout.root.kids) :
             LET e == outcome.stdout.root.kids[i]
             IN  (e.tag = "repository" /\ e.name = name)
                     => \A j \in 1..Len(e.kids) : e.kids[j].tag # "arch"

\* Every answer without data makes the discovery return no architectures.
NoDataYieldsNone ==
    \A outcome \in OscOutcomes(SourceDocs), name \in { standard, other } :
        NoData(outcome, name)
            => ~TruthyList(fetch_source_architectures(run_osc_api_get(outcome), name))

\* C6: a discovery without data yields no architectures, and a path whose
\* discovery yielded none leaves the current architectures as they were and
\* asks nothing.
C6_NoDataStep ==
    (pc = "path_repository" /\ pc' # "exited")
        => /\ NoDataYieldsNone
           /\ ~TruthyList(source_arches')
                 => /\ current_architectures' = current_architectures
                    /\ pc' = "another_path"

C6_FailedDiscoveryKeepsSet == [][C6_NoDataStep]_vars

\* A first path was added and its discovery returned nothing.
C6_Witness ==
    /\ pc = "another_path"
    /\ path_count = 1
    /\ Len(paths) = 1
    /\ source_arches = NoneList
    /\ current_architectures = custom_repo_arches

\* C7: the name of every repository that was returned, and the name a
\* repository under construction would be returned with, is the sanitised
\* project of its first path.
C7_NameFromFirstPath ==
    /\ \A i \in 1..Len(repositories_config) :
          /\ Len(repositories_config[i].paths) >= 1
          /\ repositories_config[i].repo_name =
                Replace(Replace(repositories_config[i].paths[1].project, ":", "_"),
                        "/", "_")
    /\ pc = "another_path"
          => final_repo_name = Replace(Replace(paths[1].project, ":", "_"), "/", "_")

\* A repository of two paths from different projects was returned.
C7_Witness ==
    \E i \in 1..Len(repositories_config) :
        /\ Len(repositories_config[i].paths) = 2
        /\ repositories_config[i].paths[1].project
              # repositories_config[i].paths[2].project

\* The release targets of the template: at top level and inside its
\* repositories, and those of the document.
ReleaseTargetsInDoc == { i \in 1..Len(Doc) : Doc[i].tag = "releasetarget" }

TemplateRepositories == FindAll(template_meta_xml.root, "repository")

DocRepositories == SelectSeq(TopLevel, LAMBDA i : Doc[i].tag = "repository")

NestedTargets(repo_elem) == Len(FindAll(repo_elem, "releasetarget"))

NestedTargetsAt(i) ==
    Len(SelectSeq(ChildrenOf(i), LAMBDA j : Doc[j].tag = "releasetarget"))

\* C8: a document built on a parsable template without release targets
\* imported has no releasetarget element at all; with release targets and
\* repositories imported, every template repository is in the document with
\* all its release targets.
C8_ReleaseTargets ==
    (Rendered /\ template_meta_xml.kind = "xml")
        => /\ ~include_template_targets => ReleaseTargetsInDoc = {}
           /\ (include_template_targets /\ include_template_repos)
                 => /\ Len(DocRepositories)
                          = Len(TemplateRepositories) + Len(repositories_config)
                    /\ \A k \in 1..Len(TemplateRepositories) :
                          NestedTargetsAt(DocRepositories[k])
                             = NestedTargets(TemplateRepositories[k])

\* A template repository with release targets was imported without them.
C8_Witness ==
    /\ Rendered
    /\ template_meta_xml.kind = "xml"
    /\ include_template_repos
    /\ ~include_template_targets
    /\ \E k \in 1..Len(TemplateRepositories) : NestedTargets(TemplateRepositories[k]) > 0
    /\ Len(DocRepositories) > Len(repositories_config)

\* C9: a document built on a parsable template without its repositories has
\* no releasetarget and no build element, whatever was asked for release
\* targets and build settings.
C9_NoReposForcesTargetsAndBuildOff ==
    (Rendered /\ template_meta_xml.kind = "xml" /\ ~include_template_repos)
        => \A i \in 1..Len(Doc) : Doc[i].tag \notin { "releasetarget", "build" }

\* The order of two top-level elements: title, description, roles,
\* repositories.
Rank(tag) ==
    IF tag = "title" THEN 1
    ELSE IF tag = "description" THEN 2
    ELSE IF tag \in { "person", "group" } THEN 3
    ELSE IF tag = "repository" THEN 4
    ELSE 0

\* C10: in a rendered document title and description come first, then the
\* role elements, then the repository elements; the repositories of the
\* session are in the order they were added, each with its paths in list
\* order followed by its architectures.
C10_RenderingOrder ==
    Rendered =>
        /\ Len(TopLevel) >= 2
        /\ Doc[TopLevel[1]].tag = "title"
        /\ Doc[TopLevel[2]].tag = "description"
        /\ \A a \in 1..Len(TopLevel), b \in 1..Len(TopLevel) :
              (a < b /\ Rank(Doc[TopLevel[a]].tag) > 0 /\ Rank(Doc[TopLevel[b]].tag) > 0)
                 => Rank(Doc[TopLevel[a]].tag) <= Rank(Doc[TopLevel[b]].tag)
        /\ \A k \in 1..Len(repositories_config) :
              LET repo == repositories_config[k]
                  at == SessionRepositories[k]
                  kids == ChildrenOf(at)
              IN  /\ Doc[at].tag = "repository"
                  /\ Doc[at].name = repo.repo_name
                  /\ Len(kids) = Len(repo.paths) + Len(repo.architectures)
                  /\ \A n \in 1..Len(repo.paths) :
                        /\ Doc[kids[n]].tag = "path"
                        /\ Doc[kids[n]].name = repo.paths[n].project
                        /\ Doc[kids[n]].repository = repo.paths[n].repository
                  /\ \A n \in 1..Len(repo.architectures) :
                        /\ Doc[kids[Len(repo.paths) + n]].tag = "arch"
                        /\ Doc[kids[Len(repo.paths) + n]].text = repo.architectures[n]

\* The top-level person and group elements of the document, in document
\* order, and the place of one in the order maintainer person, maintainer
\* group, reviewer person, reviewer group.
RoleElementsInDoc ==
    SelectSeq(TopLevel, LAMBDA i : Doc[i].tag \in { "person", "group" })

RoleRank(i) ==
    (IF Doc[i].role = "maintainer" THEN 0 ELSE 2)
    + (IF Doc[i].tag = "person" THEN 1 ELSE 2)

\* The ids of the elements of one kind and role, in document order.
IdsInDoc(tag, role) ==
    LET at == SelectSeq(RoleElementsInDoc,
                        LAMBDA i : Doc[i].tag = tag /\ Doc[i].role = role)
    IN  [ k \in 1..Len(at) |-> Doc[at[k]].name ]

IsSuffix(l, whole) ==
    /\ Len(l) <= Len(whole)
    /\ SubSeq(whole, Len(whole) - Len(l) + 1, Len(whole)) = l

\* C11: among the role elements of a rendered document every maintainer
\* element precedes every reviewer element and, within a role, every person
\* precedes every group; the entries of the session of one kind and role
\* are in the order they were entered.  Template roles may be imported.
C11_RoleOrder ==
    Rendered =>
        /\ \A a \in 1..Len(RoleElementsInDoc), b \in 1..Len(RoleElementsInDoc) :
              a < b => RoleRank(RoleElementsInDoc[a]) <= RoleRank(RoleElementsInDoc[b])
        /\ IsSuffix(maintainer_users, IdsInDoc("person", "maintainer"))
        /\ IsSuffix(maintainer_groups, IdsInDoc("group", "maintainer"))
        /\ IsSuffix(reviewer_users, IdsInDoc("person", "reviewer"))
        /\ IsSuffix(reviewer_groups, IdsInDoc("group", "reviewer"))

\* C12: a path is appended only in the step after its project was accepted,
\* and a project is accepted only by an existence check that found it or by
\* the operator answering the override question with yes; a declined
\* override appends nothing and asks for the project of the same path again.
C12_PathStep ==
    /\ (paths' # paths /\ paths' # << >>)
          => /\ pc = "path_repository"
             /\ project_exists \/ answer
             /\ Len(paths') = Len(paths) + 1
             /\ SubSeq(paths', 1, Len(paths)) = paths
             /\ paths'[Len(paths')].project = path_project
    /\ (pc' = "path_repository" /\ pc # "path_repository")
          => \/ pc = "path_project" /\ project_exists' /\ ~answer'
             \/ /\ pc = "path_override"
                /\ ~project_exists'
                /\ answer'
                /\ path_project' = path_project
    /\ (pc = "path_repository" /\ pc' # "repo_input")
          => path_project' = path_project
    /\ (pc = "path_project" /\ pc' \notin { "exited", "repo_input" } /\ ~project_exists')
          => pc' = "path_override" /\ paths' = paths
    /\ (pc = "path_override" /\ ~answer')
          => /\ pc' = "path_project"
             /\ paths' = paths
             /\ path_count' = path_count
             /\ repositories_config' = repositories_config

C12_PathsAccepted == [][C12_PathStep]_vars

\* The project of a second path was not found and is taken on the
\* operator's word.
C12_Witness ==
    /\ pc = "path_repository"
    /\ path_count = 2
    /\ Len(paths) = 1
    /\ ~project_exists
    /\ answer

\* C13: when the document is about to be built the project name is not
\* empty and every repository has a path, an architecture and a name.
C13_SerializerPrecondition ==
    pc = "build_xml"
        => /\ Len(parent_project) > 0
           /\ Len(subproject_name) > 0
           /\ Len(full_project_name) > 0
           /\ \A i \in 1..Len(repositories_config) :
                 /\ Len(repositories_config[i].paths) >= 1
                 /\ Len(repositories_config[i].architectures) >= 1
                 /\ Len(repositories_config[i].repo_name) > 0

\* The document is about to be built with a repository of the session, the
\* imported template having no architectures and the discovery none either.
C13_Witness ==
    /\ pc = "build_xml"
    /\ include_template_repos
    /\ template_arches = << >>
    /\ Len(repositories_config) >= 1
    /\ repositories_config[1].architectures = DEFAULT_ARCHITECTURES

\* C14: a step in which the oracle reports an authentication failure ends
\* the session, whichever query it was, and nothing is built or submitted
\* in it; an ended session takes no further step.
C14_Step ==
    /\ pc # "exited"
    /\ authentication_failed' => pc' = "exited"
    /\ pc' = "exited"
          => /\ authentication_failed'
             /\ pc \in { "start", "parent", "template", "entity_id",
                          "path_project", "path_repository" }
             /\ submitted' = submitted
             /\ project_xml_payload' = project_xml_payload
             /\ repositories_config' = repositories_config

C14_AuthenticationFailureEnds == [][C14_Step]_vars

\* The session ended on the architecture discovery of a second path.
C14_Witness ==
    /\ pc = "exited"
    /\ authentication_failed
    /\ Len(paths) = 2
    /\ submitted = 0

\* The characters a subproject name may have.
Whitelist ==
    { "A", "B", "C", "D", "E", "F", "G", "H", "I", "J", "K", "L", "M", "N", "O",
      "P", "Q", "R", "S", "T", "U", "V", "W", "X", "Y", "Z",
      "a", "b", "c", "d", "e", "f", "g", "h", "i", "j", "k", "l", "m", "n", "o",
      "p", "q", "r", "s", "t", "u", "v", "w", "x", "y", "z",
      "0", "1", "2", "3", "4", "5", "6", "7", "8", "9", ".", "_", "-" }

\* C15: past the subproject prompt the name is not empty and made of
\* letters, digits, ".", "_" and "-" only; the name of the rendered
\* document is the parent, a colon and that name.
C15_SubprojectName ==
    /\ (pc \notin { "start", "parent", "subproject", "exited" })
          => subproject_name # Blank
    /\ \A i \in 1..Len(subproject_name) : subproject_name[i] \in Whitelist
    /\ Rendered
          => /\ Doc[2].tag = "project"
             /\ Doc[2].name = parent_project \o << ":" >> \o subproject_name
             /\ \A i \in (Len(parent_project) + 2)..Len(Doc[2].name) :
                   Doc[2].name[i] \notin { ":", "/" }

\* A document was submitted for a validated name.
C15_Witness ==
    /\ pc = "done"
    /\ subproject_name = MyLib
    /\ Doc[2].name = Home \o << ":" >> \o MyLib

\* C16: the sanitised name has the length of the name, has no ":" and no
\* "/", and equals the name wherever the name has neither; sanitising it
\* again changes nothing.
C16_SanitizeIdempotent ==
    /\ pc \in { "sanitized", "sanitized_twice" }
          => /\ Len(repo_name) = Len(repo_input_name)
             /\ \A i \in 1..Len(repo_name) :
                   /\ repo_name[i] \notin { ":", "/" }
                   /\ repo_input_name[i] \notin { ":", "/" }
                         => repo_name[i] = repo_input_name[i]
    /\ pc = "sanitized_twice" => final_repo_name = repo_name

\* A name with both separators was sanitised twice.
C16_Witness ==
    /\ pc = "sanitized_twice"
    /\ repo_input_name = << ":", "a", "/" >>
    /\ repo_name = << "_", "a", "_" >>

\* A role element as kind, id and role.
RoleOf(tag, id, role) == [ tag |-> tag, id |-> id, role |-> role ]

\* The role elements of the template, of the session and of the document.
TemplateRoles ==
    LET roles == SelectSeq(template_meta_xml.root.kids,
                           LAMBDA e : e.tag \in { "person", "group" })
    IN  [ k \in 1..Len(roles) |-> RoleOf(roles[k].tag, roles[k].name, roles[k].role) ]

SessionRoles ==
    [ k \in 1..Len(maintainer_users) |-> RoleOf("person", maintainer_users[k], "maintainer") ]
    \o [ k \in 1..Len(maintainer_groups) |-> RoleOf("group", maintainer_groups[k], "maintainer") ]
    \o [ k \in 1..Len(reviewer_users) |-> RoleOf("person", reviewer_users[k], "reviewer") ]
    \o [ k \in 1..Len(reviewer_groups) |-> RoleOf("group", reviewer_groups[k], "reviewer") ]

DocRoles ==
    [ k \in 1..Len(RoleElementsInDoc) |->
        RoleOf(Doc[RoleElementsInDoc[k]].tag, Doc[RoleElementsInDoc[k]].name,
               Doc[RoleElementsInDoc[k]].role) ]

\* The names of the repositories of the template, of the session and of
\* the document.
TemplateRepositoryNames ==
    [ k \in 1..Len(TemplateRepositories) |-> TemplateRepositories[k].name ]

SessionRepositoryNames ==
    [ k \in 1..Len(repositories_config) |-> repositories_config[k].repo_name ]

DocRepositoryNames ==
    [ k \in 1..Len(DocRepositories) |-> Doc[DocRepositories[k]].name ]

\* C17: a document built on a parsable template has one root, named as the
\* new project and not as the template; its role elements are those of the
\* template exactly when roles are imported, followed by those of the
\* session; its repositories are those of the template exactly when
\* repositories are imported, followed by those of the session.
C17_TemplateFiltering ==
    (Rendered /\ template_meta_xml.kind = "xml")
        => /\ Doc[2].depth = 0
           /\ \A i \in 3..Len(Doc) : Doc[i].depth > 0
           /\ Doc[2].name = full_project_name
           /\ Doc[2].name # template_meta_xml.root.name
           /\ DocRoles =
                 (IF include_template_roles THEN TemplateRoles ELSE << >>)
                 \o SessionRoles
           /\ DocRepositoryNames =
                 (IF include_template_repos THEN TemplateRepositoryNames ELSE << >>)
                 \o SessionRepositoryNames

\* A template with a role and a repository: the role was imported and the
\* repository was not.
C17_Witness ==
    /\ Rendered
    /\ template_meta_xml.kind = "xml"
    /\ include_template_roles
    /\ ~include_template_repos
    /\ TemplateRoles # << >>
    /\ TemplateRepositories # << >>
    /\ DocRoles # << >>
    /\ Len(DocRepositories) = Len(repositories_config)

\* The architectures of all repositories of a parsable template.
TemplateArchitectureUnion ==
    IF template_meta_xml.kind # "xml" THEN {}
    ELSE UNION { { Strip(repo.kids[j].text) :
                     j \in { n \in 1..Len(repo.kids) :
                               repo.kids[n].tag = "arch" /\ repo.kids[n].text # Blank } } :
                 repo \in Range(TemplateRepositories) }

\* The positions of the session at which the seed has been computed.
SeedComputed ==
    pc \in { "entity_id", "entity_override", "role_flags", "repo_input",
             "path_project", "path_override", "path_repository", "replace",
             "another_path", "build_xml", "submit", "done", "failed", "crashed" }

\* C18: the seed is the union of the architectures of the template's
\* repositories when a template was fetched, its repositories were imported
\* and the union is not empty; otherwise it is the default set.  Every
\* repository starts from the seed.
C18_ArchitectureSeed ==
    /\ SeedComputed
          => /\ Range(custom_repo_arches) =
                   IF /\ TruthyDoc(template_meta_xml)
                      /\ include_template_repos
                      /\ TemplateArchitectureUnion # {}
                   THEN TemplateArchitectureUnion
                   ELSE { x86_64, ppc64le, s390x, aarch64 }
             /\ Len(custom_repo_arches) = Cardinality(Range(custom_repo_arches))
    /\ (pc = "path_project" /\ path_count = 1)
          => current_architectures = custom_repo_arches

\* A repository starts from the architectures of the two repositories of an
\* imported template.
C18_Witness ==
    /\ pc = "path_project"
    /\ path_count = 1
    /\ include_template_repos
    /\ current_architectures = << aarch64, x86_64 >>

\* C19: the questions about release targets and build settings are asked
\* only with repository import accepted; without it both flags are false
\* and the rendered document has no releasetarget and no build element.
C19_DeclinedRepositories ==
    /\ pc \in { "import_targets", "import_build" } => include_template_repos
    /\ ~include_template_repos
          => ~include_template_targets /\ ~include_template_build_tags
    /\ (Rendered /\ ~include_template_repos)
          => \A i \in 1..Len(Doc) : Doc[i].tag \notin { "releasetarget", "build" }

\* A document was submitted on a template with a build element and a
\* release target, its repositories declined and its roles imported.
C19_Witness ==
    /\ pc = "done"
    /\ template_meta_xml = TemplateFull
    /\ include_template_roles
    /\ ~include_template_repos

\* C20: the path project is never empty, nor is the default a blank answer
\* falls back to; a repository is returned only from the question for
\* another path, with the paths appended so far, at least one; the path
\* project prompt never returns a repository.
C20_Step ==
    /\ pc' \in { "path_override", "path_repository", "replace", "another_path" }
          => path_project' # Blank
    /\ pc' = "path_project" => path_project_default' # Blank
    /\ ~(pc = "path_project" /\ pc' = "repo_input")
    /\ repositories_config' # repositories_config
          => /\ pc = "another_path"
             /\ Len(paths) >= 1
             /\ Len(repositories_config') = Len(repositories_config) + 1
             /\ repositories_config'[Len(repositories_config')].paths = paths

InRepositoryLoop ==
    pc \in { "repo_input", "path_project", "path_override", "path_repository",
             "replace", "another_path" }

\* One step of the repository loop keeps the repositories built so far.
EarlierRepositoriesKept ==
    /\ Len(repositories_config') >= Len(repositories_config)
    /\ \A i \in 1..Len(repositories_config) :
          repositories_config'[i] = repositories_config[i]

\* C21 (step): in the repository loop no step changes the session seed, no
\* step changes a repository already stored, and the step that starts a
\* repository gives it the session seed as its architectures, whatever was
\* replaced or reconciled while the earlier repositories were built.
C21_Step ==
    InRepositoryLoop
        => /\ custom_repo_arches' = custom_repo_arches
           /\ EarlierRepositoriesKept
           /\ (pc = "repo_input" /\ pc' = "path_project")
                 => current_architectures' = custom_repo_arches'

\* C21: the architecture resolution of one repository never affects another.
C21_RepositoriesIndependent == [][C21_Step]_vars

\* A second repository starts from the seed after the architectures of the
\* first were replaced by discovered ones.
C21_Witness ==
    /\ pc = "path_project"
    /\ path_count = 1
    /\ Len(repositories_config) = 1
    /\ repositories_config[1].architectures # custom_repo_arches
    /\ current_architectures = custom_repo_arches

\* The positions of the session from rendering on.
RenderingOrLater == pc \in { "build_xml", "crashed", "submit", "done", "failed" }

\* The project name a document is rendered and submitted under starts with
\* the accepted parent followed by a colon.
UnderAcceptedParent ==
    /\ Len(Doc[2].name) > Len(parent_project) + 1
    /\ SubSeq(Doc[2].name, 1, Len(parent_project) + 1)
          = parent_project \o << ":" >>
    /\ Doc[2].name = full_project_name

\* C22 (step): a round of the parent prompt either accepts a non-empty parent
\* whose existence check returned true, or asks again with nothing accepted,
\* or ends the session; once accepted the parent and the result of its check
\* never change; the document is submitted only from the submit position,
\* at most once, under the accepted parent.
C22_Step ==
    /\ pc = "parent"
          => \/ /\ pc' = "subproject"
                /\ parent_project_exists'
                /\ parent_project' # Blank
             \/ /\ pc' = "parent"
                /\ ~parent_project_exists'
                /\ parent_project' = Blank
             \/ pc' = "exited"
    /\ pc \notin { "start", "parent" }
          => /\ parent_project' = parent_project
             /\ parent_project_exists' = parent_project_exists
    /\ pc' \in { "build_xml", "crashed", "submit", "done", "failed" }
          => parent_project_exists' /\ parent_project' # Blank
    /\ submitted' # submitted
          => /\ pc = "submit"
             /\ submitted = 0
             /\ submitted' = 1
             /\ parent_project_exists
             /\ UnderAcceptedParent

\* C22: rendering and submission are reached only after the existence check
\* of the parent returned true; an empty or not-found parent is always asked
\* again, without override; the document is submitted at most once, under a
\* project name whose parent part is the accepted parent.
C22_ParentChecked == [][C22_Step]_vars

\* A session that submitted its document under an accepted parent.
C22_Witness ==
    /\ pc = "done"
    /\ submitted = 1
    /\ parent_project_exists
    /\ parent_project = Home
    /\ UnderAcceptedParent

=============================================================================
